---- MODULE Spec2Model ----
(***************************************************************************)
(* Model of src/adaptive_smoothing.c: the 2-D SPH kernel (sph_kernel), the *)
(* coordinate mapper (rhalfs_to_pixels) and the accumulator (add).         *)
(*                                                                         *)
(* A C double is modelled as a binary floating-point number with           *)
(* SignificandBits significand bits (53 in the C build), gradual underflow *)
(* to a smallest quantum of 2^-QuantumBits (2^-1074 in the C build),       *)
(* round-to-nearest-even after every operation, plus +inf, -inf and NaN.   *)
(* A value is the pair <<n, d>>: the rational n/d in lowest terms when     *)
(* d > 0, and <<1,0>> = +inf, <<-1,0>> = -inf, <<0,0>> = NaN.  Signed      *)
(* zeros are not distinguished, and overflow to infinity is out of reach   *)
(* of the bounded inputs.                                                  *)
(***************************************************************************)
EXTENDS Integers, Sequences, FiniteSets, TLC

\* ------------------------------------------------------------------ bounds
SignificandBits == 5
QuantumBits == 16
MaxExp == 1
MaxNpix == 5
MaxN == 3
MaxPoints == 2

\* ------------------------------------------------------- integer helpers
Abs(n) == IF n < 0 THEN -n ELSE n

Sign(n) == IF n < 0 THEN -1 ELSE IF n > 0 THEN 1 ELSE 0

Max(a, b) == IF a >= b THEN a ELSE b

Min(a, b) == IF a <= b THEN a ELSE b

RECURSIVE Gcd(_, _)
Gcd(a, b) == IF b = 0 THEN a ELSE Gcd(b, a % b)

\* 2^k for k in 0..30
Pow2(k) ==
    <<1, 2, 4, 8, 16, 32, 64, 128, 256, 512, 1024, 2048, 4096, 8192, 16384, 32768,
      65536, 131072, 262144, 524288, 1048576, 2097152, 4194304, 8388608,
      16777216, 33554432, 67108864, 134217728, 268435456, 536870912, 1073741824>>[k + 1]

\* floor(log2(a/d)) for integers a > 0, d > 0
RECURSIVE Log2Floor(_, _)
Log2Floor(a, d) ==
    IF a >= d
    THEN (IF a >= 2 * d THEN 1 + Log2Floor(a, 2 * d) ELSE 0)
    ELSE Log2Floor(2 * a, d) - 1

\* floor(sqrt(s)) for an integer s >= 0, by bisection of lo..hi
RECURSIVE SqrtBetween(_, _, _)
SqrtBetween(s, lo, hi) ==
    IF lo >= hi THEN lo
    ELSE LET mid == (lo + hi + 1) \div 2
         IN IF mid * mid <= s THEN SqrtBetween(s, mid, hi) ELSE SqrtBetween(s, lo, mid - 1)

ISqrt(s) == SqrtBetween(s, 0, Min(s, 32768))

\* ------------------------------------------------------ exact arithmetic
NaN == <<0, 0>>

PosInf == <<1, 0>>

IsFinite(q) == q[2] # 0

IsNaN(q) == q = NaN

Norm(q) ==
    IF q[2] = 0 THEN <<Sign(q[1]), 0>>
    ELSE LET g == Gcd(Abs(q[1]), Abs(q[2]))
             s == Sign(q[2])
         IN <<s * (q[1] \div g), s * (q[2] \div g)>>

QNeg(a) == <<-a[1], a[2]>>

QAdd(a, b) ==
    IF IsFinite(a) /\ IsFinite(b)
    THEN LET g == Gcd(a[2], b[2])
             l == (a[2] \div g) * b[2]
         IN Norm(<<a[1] * (l \div a[2]) + b[1] * (l \div b[2]), l>>)
    ELSE IF IsNaN(a) \/ IsNaN(b) THEN NaN
    ELSE IF ~IsFinite(a) /\ ~IsFinite(b) THEN (IF a = b THEN a ELSE NaN)
    ELSE IF ~IsFinite(a) THEN a ELSE b

QSub(a, b) == QAdd(a, QNeg(b))

QMul(a, b) ==
    IF IsFinite(a) /\ IsFinite(b)
    THEN LET g1 == Gcd(Abs(a[1]), b[2])
             g2 == Gcd(Abs(b[1]), a[2])
         IN Norm(<<(a[1] \div g1) * (b[1] \div g2), (a[2] \div g2) * (b[2] \div g1)>>)
    ELSE <<Sign(a[1]) * Sign(b[1]), 0>>

QRecip(a) == IF a[1] < 0 THEN <<-a[2], -a[1]>> ELSE <<a[2], a[1]>>

QDiv(a, b) == QMul(a, QRecip(b))

\* a <= b and a < b as C compares doubles: false when either is NaN
QLe(a, b) ==
    IF IsFinite(a) /\ IsFinite(b) THEN a[1] * b[2] <= b[1] * a[2]
    ELSE IF IsNaN(a) \/ IsNaN(b) THEN FALSE
    ELSE a = <<-1, 0>> \/ b = PosInf

QLt(a, b) == QLe(a, b) /\ a # b

QAbs(a) == <<Abs(a[1]), a[2]>>

\* m * 2^e
Dyadic(m, e) == IF e >= 0 THEN Norm(<<m * Pow2(e), 1>>) ELSE Norm(<<m, Pow2(-e)>>)

\* ------------------------------------------------- double arithmetic
\* round to the nearest representable value, ties to even
Rnd(q) ==
    IF q[2] = 0 \/ q[1] = 0 THEN q
    ELSE LET a == Abs(q[1])
             e == Log2Floor(a, q[2])
             qe == Max(e - SignificandBits + 1, -QuantumBits)
             tn == IF qe < 0 THEN a * Pow2(-qe) ELSE a
             td == IF qe < 0 THEN q[2] ELSE q[2] * Pow2(qe)
             m == tn \div td
             rem == tn % td
             up == 2 * rem > td \/ (2 * rem = td /\ m % 2 = 1)
         IN Dyadic(Sign(q[1]) * (IF up THEN m + 1 ELSE m), qe)

FAdd(a, b) == Rnd(QAdd(a, b))

FSub(a, b) == Rnd(QSub(a, b))

FMul(a, b) == Rnd(QMul(a, b))

FDiv(a, b) == Rnd(QDiv(a, b))

\* sqrt of <math.h>: the correctly rounded square root
FSqrt(q) ==
    IF IsNaN(q) \/ q[1] < 0 THEN NaN
    ELSE IF q[2] = 0 \/ q[1] = 0 THEN q
    ELSE LET e == Log2Floor(q[1], q[2]) \div 2
             qe == Max(e - SignificandBits + 1, -QuantumBits)
             tn == IF qe < 0 THEN q[1] * Pow2(-2 * qe) ELSE q[1]
             td == IF qe < 0 THEN q[2] ELSE q[2] * Pow2(2 * qe)
             m == ISqrt(tn \div td)
             hi == (4 * m * m + 4 * m + 1) * td
             up == 4 * tn > hi \/ (4 * tn = hi /\ m % 2 = 1)
         IN Dyadic(IF up THEN m + 1 ELSE m, qe)

\* conversion of an int to double: exact in C for every 32-bit int
I2F(n) == <<n, 1>>

\* (int) floor(q) for a finite q
FloorInt(q) == q[1] \div q[2]

\* the doubles with exponent in elo..ehi
FloatSet(elo, ehi) ==
    { Dyadic(m, e - SignificandBits + 1) :
        m \in Pow2(SignificandBits - 1)..(Pow2(SignificandBits) - 1), e \in elo..ehi }

Zero == <<0, 1>>

One == <<1, 1>>

Two == <<2, 1>>

Half == <<1, 2>>

\* ------------------------------------------------------------ sph_kernel
pi == Rnd(<<314159, 100000>>)

KernelX(r, h) == FDiv(r, h)

\* 1.0 - 6.0*x*x + 6.0*x*x*x
KernelInner(x) ==
    FAdd(FSub(One, FMul(FMul(<<6, 1>>, x), x)),
         FMul(FMul(FMul(<<6, 1>>, x), x), x))

\* mutant of KernelOuter: a square in place of the cube
KernelOuterSquared(x) == FMul(FMul(Two, FSub(One, x)), FSub(One, x))

\* 2.0 * (1.0 - x) * (1.0 - x) * (1.0 - x)
KernelOuter(x) ==
    FMul(FMul(FMul(Two, FSub(One, x)), FSub(One, x)), FSub(One, x))

KernelRetval(x) ==
    IF QLe(x, Half) THEN KernelInner(x)
    ELSE IF QLe(x, One) THEN KernelOuter(x)
    ELSE Zero

\* 4.0 * 10.0 / (7.0*pi*h*h)
KernelNorm(h) ==
    FDiv(FMul(<<4, 1>>, <<10, 1>>), FMul(FMul(FMul(<<7, 1>>, pi), h), h))

sph_kernel(r, h) == FMul(KernelNorm(h), KernelRetval(KernelX(r, h)))

\* ------------------------------------------------------ rhalfs_to_pixels
rhalfs_to_pixels(r, npix, num_rhalfs) ==
    FloorInt(FAdd(FDiv(I2F(npix), Two),
                  FDiv(FMul(r, I2F(npix)), FMul(Two, num_rhalfs))))

\* ------------------------------------------------------------------- add
num_hsml == Rnd(<<14, 5>>)

\* double h = num_hsml*hsml[k]
SupportRadius(hs) == FMul(num_hsml, hs)

\* mutant of BoxMin: the lower bound is not clipped to 0
BoxMinUnclipped(c, hh, npix, R) == rhalfs_to_pixels(FSub(c, hh), npix, R)

\* (int) fmax(0, rhalfs_to_pixels(c-h, npix, num_rhalfs))
BoxMin(c, hh, npix, R) == Max(0, rhalfs_to_pixels(FSub(c, hh), npix, R))

\* mutant of BoxMax: the upper bound is taken at c instead of c+h
BoxMaxNoRadius(c, hh, npix, R) == Min(npix - 1, rhalfs_to_pixels(c, npix, R))

\* (int) fmin(npix-1, rhalfs_to_pixels(c+h, npix, num_rhalfs))
BoxMax(c, hh, npix, R) == Min(npix - 1, rhalfs_to_pixels(FAdd(c, hh), npix, R))

\* int n = i*ny + j
LinearIndex(ii, jj, nyy) == ii * nyy + jj

\* sqrt((X[n]-x0[k])*(X[n]-x0[k]) + (Y[n]-y0[k])*(Y[n]-y0[k]))
Radius(Xn, Yn, xk, yk) ==
    FSqrt(FAdd(FMul(FSub(Xn, xk), FSub(Xn, xk)), FMul(FSub(Yn, yk), FSub(Yn, yk))))

\* weights[k] * sph_kernel(r, h)
Contribution(wk, r, hh) == FMul(wk, sph_kernel(r, hh))

\* Z[n] += c
Accumulate(Zarr, n, c) == [Zarr EXCEPT ![n] = FAdd(@, c)]

\* mutant of AccumulateReal: Z[n] = c
AccumulateRealOverwrite(Zarr, n, c) == [Zarr EXCEPT ![n] = c]

\* Z[n] += c in real arithmetic (no rounding of the sum)
AccumulateReal(Zarr, n, c) == [Zarr EXCEPT ![n] = QAdd(@, c)]

VARIABLES
    X, Y, Z, nx, ny, x0, y0, weights, hsml, npoints, num_rhalfs,  \* arguments of add
    k, i, j, h, imin, imax, jmin, jmax,                           \* locals of add
    pc,        \* position in add: "k", "i", "j" loop heads, "done", "fault"; "idle" outside add
    Zreal,     \* history: Z as accumulated in real arithmetic
    log,       \* history: the cells updated so far, in order
    kernel,    \* one call of sph_kernel
    mapper     \* one call of rhalfs_to_pixels

args == <<X, Y, nx, ny, x0, y0, weights, hsml, npoints, num_rhalfs>>

locals == <<k, i, j, h, imin, imax, jmin, jmax>>

vars == <<args, locals, Z, pc, Zreal, log, kernel, mapper>>

\* ---- inputs of add
RhalfsSet == { <<21, 16>> }

\* source positions: on an axis of the domain, inside it or beyond an edge
PositionSet == { <<Zero, Zero>>, <<(<<-11, 4>>), Zero>>, <<Zero, Two>> }

HsmlWeightSet == { <<(<<1, 8>>), (<<3, 1>>)>>, <<(<<1, 2>>), (<<-2, 1>>)>> }

SourceSet ==
    { [x0 |-> p[1], y0 |-> p[2], hsml |-> hw[1], weights |-> hw[2]] :
        p \in PositionSet, hw \in HsmlWeightSet }

\* sample coordinate of the centre of pixel p of npix along one axis
CellCentre(p, npix, R) == Rnd(QDiv(QMul(R, <<2 * p + 1 - npix, 1>>), <<npix, 1>>))

Cells(nxx, nyy) == 0..(nxx * nyy - 1)

KernelIdle == [r |-> Zero, h |-> One, x |-> Zero, retval |-> Zero, ret |-> Zero, pc |-> "idle"]

MapperIdle == [r |-> Zero, npix |-> 1, num_rhalfs |-> One, ret |-> 0, pc |-> "idle"]

Init ==
    /\ nx \in 1..MaxN
    /\ ny \in 1..MaxN
    /\ num_rhalfs \in RhalfsSet
    /\ npoints \in 0..MaxPoints
    /\ \E src \in [0..(npoints - 1) -> SourceSet] :
        /\ x0 = [s \in 0..(npoints - 1) |-> src[s].x0]
        /\ y0 = [s \in 0..(npoints - 1) |-> src[s].y0]
        /\ hsml = [s \in 0..(npoints - 1) |-> src[s].hsml]
        /\ weights = [s \in 0..(npoints - 1) |-> src[s].weights]
    /\ X = [n \in Cells(nx, ny) |-> CellCentre(n % ny, nx, num_rhalfs)]
    /\ Y = [n \in Cells(nx, ny) |-> CellCentre(n \div ny, ny, num_rhalfs)]
    /\ Z = [n \in Cells(nx, ny) |-> Zero]
    /\ Zreal = [n \in Cells(nx, ny) |-> Zero]
    /\ log = <<>>
    /\ k = 0 /\ i = 0 /\ j = 0 /\ h = Zero
    /\ imin = 0 /\ imax = 0 /\ jmin = 0 /\ jmax = 0
    /\ pc = "k"
    /\ kernel = KernelIdle
    /\ mapper = MapperIdle

\* h and the clipped bounding box of source s
Box(s) ==
    LET hh == SupportRadius(hsml[s]) IN
    [h |-> hh,
     imin |-> BoxMin(y0[s], hh, ny, num_rhalfs),
     imax |-> BoxMax(y0[s], hh, ny, num_rhalfs),
     jmin |-> BoxMin(x0[s], hh, nx, num_rhalfs),
     jmax |-> BoxMax(x0[s], hh, nx, num_rhalfs)]

\* weights[k] * sph_kernel(r, h) for source s at index n
CellContribution(s, n, hh) ==
    Contribution(weights[s], Radius(X[n], Y[n], x0[s], y0[s]), hh)

\* for (k = 0; k < npoints; k++) { h, imin, imax, jmin, jmax; i = imin
AddBeginSource ==
    /\ pc = "k"
    /\ k < npoints
    /\ LET b == Box(k) IN
        /\ h' = b.h
        /\ imin' = b.imin
        /\ imax' = b.imax
        /\ jmin' = b.jmin
        /\ jmax' = b.jmax
        /\ i' = b.imin
    /\ pc' = "i"
    /\ UNCHANGED <<args, k, j, Z, Zreal, log, kernel, mapper>>

\* k == npoints: the call returns
AddReturn ==
    /\ pc = "k"
    /\ ~(k < npoints)
    /\ pc' = "done"
    /\ UNCHANGED <<args, locals, Z, Zreal, log, kernel, mapper>>

\* for (i = imin; i < imax+1; i++) { j = jmin
AddBeginRow ==
    /\ pc = "i"
    /\ i < imax + 1
    /\ j' = jmin
    /\ pc' = "j"
    /\ UNCHANGED <<args, k, i, h, imin, imax, jmin, jmax, Z, Zreal, log, kernel, mapper>>

\* mutant of AddEndSource: k += 2
AddEndSourceSkip ==
    /\ pc = "i"
    /\ ~(i < imax + 1)
    /\ k' = k + 2
    /\ pc' = "k"
    /\ UNCHANGED <<args, i, j, h, imin, imax, jmin, jmax, Z, Zreal, log, kernel, mapper>>

\* i == imax+1: k++
AddEndSource ==
    /\ pc = "i"
    /\ ~(i < imax + 1)
    /\ k' = k + 1
    /\ pc' = "k"
    /\ UNCHANGED <<args, i, j, h, imin, imax, jmin, jmax, Z, Zreal, log, kernel, mapper>>

\* loop body for a cell inside the arrays, then j++
AddCell ==
    /\ pc = "j"
    /\ j < jmax + 1
    /\ LET n == LinearIndex(i, j, ny) IN
        /\ n \in Cells(nx, ny)
        /\ LET c == CellContribution(k, n, h) IN
            /\ Z' = Accumulate(Z, n, c)
            /\ Zreal' = AccumulateReal(Zreal, n, c)
        /\ log' = Append(log, [k |-> k, i |-> i, j |-> j, n |-> n])
    /\ j' = j + 1
    /\ UNCHANGED <<args, k, i, h, imin, imax, jmin, jmax, pc, kernel, mapper>>

\* loop body for n outside the arrays: X[n], Y[n] are read and Z[n] is written
\* past the end of the buffers.  Either the access faults, or it reads garbage
\* and writes memory that is not Z, and the loop goes on.
AddCellOutOfBounds ==
    /\ pc = "j"
    /\ j < jmax + 1
    /\ LET n == LinearIndex(i, j, ny) IN
        /\ n \notin Cells(nx, ny)
        /\ log' = Append(log, [k |-> k, i |-> i, j |-> j, n |-> n])
    /\ \/ pc' = "fault" /\ j' = j
       \/ pc' = "j" /\ j' = j + 1
    /\ UNCHANGED <<args, k, i, h, imin, imax, jmin, jmax, Z, Zreal, kernel, mapper>>

\* j == jmax+1: i++
AddEndRow ==
    /\ pc = "j"
    /\ ~(j < jmax + 1)
    /\ i' = i + 1
    /\ pc' = "i"
    /\ UNCHANGED <<args, k, j, h, imin, imax, jmin, jmax, Z, Zreal, log, kernel, mapper>>

Next ==
    \/ AddBeginSource
    \/ AddReturn
    \/ AddBeginRow
    \/ AddEndSource
    \/ AddCell
    \/ AddCellOutOfBounds
    \/ AddEndRow

Spec == Init /\ [][Next]_vars

\* ------------------------------------------- one call of sph_kernel(r, h)
\* DBL_MIN: the smallest normal double
MinNormal == Dyadic(1, SignificandBits - 1 - QuantumBits)

KernelRSet == {Zero} \cup FloatSet(-MaxExp - 1, MaxExp + 1)

KernelHSet == {MinNormal} \cup FloatSet(-MaxExp, MaxExp)

AddIdle ==
    /\ nx = 1 /\ ny = 1 /\ npoints = 0 /\ num_rhalfs = One
    /\ x0 = <<>> /\ y0 = <<>> /\ hsml = <<>> /\ weights = <<>>
    /\ X = [n \in Cells(1, 1) |-> Zero]
    /\ Y = [n \in Cells(1, 1) |-> Zero]
    /\ Z = [n \in Cells(1, 1) |-> Zero]
    /\ Zreal = [n \in Cells(1, 1) |-> Zero]
    /\ log = <<>>
    /\ k = 0 /\ i = 0 /\ j = 0 /\ h = Zero
    /\ imin = 0 /\ imax = 0 /\ jmin = 0 /\ jmax = 0
    /\ pc = "idle"

KernelInit ==
    /\ AddIdle
    /\ mapper = MapperIdle
    /\ kernel \in { [r |-> a, h |-> b, x |-> Zero, retval |-> Zero, ret |-> Zero, pc |-> "call"] :
                      a \in KernelRSet, b \in KernelHSet }

KernelCall ==
    /\ kernel.pc = "call"
    /\ kernel' = [kernel EXCEPT
                    !.x = KernelX(kernel.r, kernel.h),
                    !.retval = KernelRetval(KernelX(kernel.r, kernel.h)),
                    !.ret = sph_kernel(kernel.r, kernel.h),
                    !.pc = "ret"]
    /\ UNCHANGED <<args, locals, Z, pc, Zreal, log, mapper>>

KernelNext == KernelCall

SpecKernel == KernelInit /\ [][KernelNext]_vars

\* ------------------------ one call of rhalfs_to_pixels(r, npix, num_rhalfs)
MapperRhalfsSet == FloatSet(-MaxExp, MaxExp)

MapperInit ==
    /\ AddIdle
    /\ kernel = KernelIdle
    /\ \E R \in MapperRhalfsSet, np \in 1..MaxNpix :
        \E rr \in {R, QNeg(R), Zero} \cup FloatSet(0, 0) \cup {QNeg(f) : f \in FloatSet(0, 0)} :
            mapper = [r |-> rr, npix |-> np, num_rhalfs |-> R, ret |-> 0, pc |-> "call"]

MapperCall ==
    /\ mapper.pc = "call"
    /\ mapper' = [mapper EXCEPT
                    !.ret = rhalfs_to_pixels(mapper.r, mapper.npix, mapper.num_rhalfs),
                    !.pc = "ret"]
    /\ UNCHANGED <<args, locals, Z, pc, Zreal, log, kernel>>

MapperNext == MapperCall

SpecMapper == MapperInit /\ [][MapperNext]_vars

\* ------------------------------------------------ add on one source alone
ZeroArray == [n \in Cells(nx, ny) |-> Zero]

\* the loops of lines 38-44 for source s from cell (ii, jj) on, accumulating in
\* real arithmetic into Zacc; an index outside the arrays does not reach Zacc
RECURSIVE AddRectReal(_, _, _, _, _)
AddRectReal(Zacc, s, b, ii, jj) ==
    IF ~(ii < b.imax + 1) THEN Zacc
    ELSE IF ~(jj < b.jmax + 1) THEN AddRectReal(Zacc, s, b, ii + 1, b.jmin)
    ELSE LET n == LinearIndex(ii, jj, ny) IN
         AddRectReal(IF n \in Cells(nx, ny)
                     THEN AccumulateReal(Zacc, n, CellContribution(s, n, b.h))
                     ELSE Zacc,
                     s, b, ii, jj + 1)

\* the Z of add(X, Y, Z, nx, ny, &x0[s], &y0[s], &weights[s], &hsml[s], 1, num_rhalfs)
\* on a zeroed Z, in real arithmetic
AddAlone(s) == AddRectReal(ZeroArray, s, Box(s), Box(s).imin, Box(s).jmin)

\* ================================================================ claims
LogIdx == 1..Len(log)

Visited(s) == { <<log[e].i, log[e].j>> : e \in { f \in LogIdx : log[f].k = s } }

\* the source whose loops are running, the one whose loops have just ended, and
\* the one whose loops were cut short by a fault
Current == IF pc \in {"i", "j", "fault"} THEN {k} ELSE {}

JustEnded == IF pc = "k" /\ k > 0 THEN {k - 1} ELSE {}

Faulted == IF pc = "fault" THEN {k} ELSE {}

\* the bounding box of source k has just been computed
BoxComputed == pc = "i" /\ i = imin

\* C1: every linear index n = i*ny + j at which add reads X or Y or updates Z
\* lies in 0..nx*ny-1, for any nx and ny.
C1_NoOutOfBounds == \A e \in LogIdx : log[e].n \in Cells(nx, ny)

\* the support [c-h, c+h] lies entirely beyond an edge of [-R, R]
BeyondEdge(c, hh, R) == QLt(R, QSub(c, hh)) \/ QLt(QAdd(c, hh), QNeg(R))

OutOfDomain(s) ==
    LET hh == SupportRadius(hsml[s]) IN
    BeyondEdge(x0[s], hh, num_rhalfs) \/ BeyondEdge(y0[s], hh, num_rhalfs)

\* C2: a source whose support lies entirely beyond an edge of the domain gets an
\* empty clipped bounding box, so no inner-loop iteration runs for it.
C2_OutOfDomainEmptyBox ==
    \A s \in Current \cup JustEnded : OutOfDomain(s) =>
        /\ Box(s).imax < Box(s).imin \/ Box(s).jmax < Box(s).jmin
        /\ Visited(s) = {}

RECURSIVE SumAlone(_)
SumAlone(s) ==
    IF s = 0 THEN ZeroArray
    ELSE LET rest == SumAlone(s - 1)
             one == AddAlone(s - 1)
         IN [n \in Cells(nx, ny) |-> QAdd(rest[n], one[n])]

\* C3: in real arithmetic, the Z produced by one call over all sources equals,
\* entry by entry, the sum of the Z produced by separate calls on each source.
C3_Additive == pc = "done" => Zreal = SumAlone(npoints)

C3_Witness ==
    /\ pc = "done"
    /\ npoints = 2
    /\ \E e1, e2 \in LogIdx :
        /\ log[e1].k = 0 /\ log[e2].k = 1 /\ log[e1].n = log[e2].n
        /\ log[e1].n \in Cells(nx, ny)
        /\ AddAlone(0)[log[e1].n] # Zero
        /\ AddAlone(1)[log[e1].n] # Zero

LexLess(a, b) ==
    \/ a.k < b.k
    \/ a.k = b.k /\ a.i < b.i
    \/ a.k = b.k /\ a.i = b.i /\ a.j < b.j

\* C4: updates happen in source order, and within a source in row-major cell
\* order; when the call returns every source has been processed.
C4_Order ==
    /\ pc \in {"done", "fault"} =>
        \A e \in LogIdx : e < Len(log) => LexLess(log[e], log[e + 1])
    /\ pc = "done" =>
        /\ k = npoints
        /\ \A s \in 0..(npoints - 1) :
            (Box(s).imin..Box(s).imax) \X (Box(s).jmin..Box(s).jmax) \subseteq Visited(s)

C4_Witness ==
    /\ pc = "done"
    /\ npoints = 2
    /\ \E e \in LogIdx : e + 3 <= Len(log)
        /\ log[e].k = 0 /\ log[e + 1].k = 0 /\ log[e + 1].i = log[e].i + 1
        /\ log[e + 2].k = 1 /\ log[e + 3].k = 1 /\ log[e + 3].j = log[e + 2].j + 1

\* C8: a grid cell whose sample coordinates match the mapper's convention and
\* lie within the support of a source is inside its clipped bounding box, and
\* is visited.
InSupport(n, s, hh) ==
    /\ QLe(QAbs(QSub(X[n], x0[s])), hh)
    /\ QLe(QAbs(QSub(Y[n], y0[s])), hh)

MatchesMapper(n, ii, jj) ==
    /\ rhalfs_to_pixels(X[n], nx, num_rhalfs) = jj
    /\ rhalfs_to_pixels(Y[n], ny, num_rhalfs) = ii

Overlapping(s) ==
    { c \in (0..(ny - 1)) \X (0..(nx - 1)) :
        LET n == LinearIndex(c[1], c[2], ny) IN
        /\ n \in Cells(nx, ny)
        /\ MatchesMapper(n, c[1], c[2])
        /\ InSupport(n, s, SupportRadius(hsml[s])) }

C8_NoCellSkipped ==
    /\ BoxComputed =>
        \A c \in Overlapping(k) :
            imin <= c[1] /\ c[1] <= imax /\ jmin <= c[2] /\ c[2] <= jmax
    /\ \A s \in JustEnded : Overlapping(s) \subseteq Visited(s)

C8_Witness ==
    \E s \in JustEnded :
        /\ Cardinality(Overlapping(s)) >= 2
        /\ Overlapping(s) # Visited(s)
        /\ Overlapping(s) \subseteq Visited(s)

\* C9: the clipped bounds lie inside the grid, so every visited (i, j) does, and
\* the loops iterate exactly the inclusive rectangle [imin, imax] x [jmin, jmax].
C9_BoxInsideGrid ==
    /\ pc \in {"i", "j"} => imin >= 0 /\ imax <= ny - 1 /\ jmin >= 0 /\ jmax <= nx - 1
    /\ \A s \in JustEnded \cup Faulted : \A c \in Visited(s) :
        0 <= c[1] /\ c[1] <= ny - 1 /\ 0 <= c[2] /\ c[2] <= nx - 1
    /\ \A s \in JustEnded :
        Visited(s) = (Box(s).imin..Box(s).imax) \X (Box(s).jmin..Box(s).jmax)

\* a finished source whose unclipped box sticks out of the grid on both sides
C9_Witness ==
    \E s \in JustEnded :
        LET hh == SupportRadius(hsml[s]) IN
        /\ rhalfs_to_pixels(FSub(y0[s], hh), ny, num_rhalfs) < 0
        /\ rhalfs_to_pixels(FAdd(x0[s], hh), nx, num_rhalfs) > nx - 1
        /\ Cardinality(Visited(s)) >= 2

\* C10: within one source the visited (i, j) map to pairwise distinct linear
\* indices, so each entry of Z gets at most one contribution per source.
C10_DistinctIndices ==
    \A e1, e2 \in LogIdx :
        e1 # e2 /\ log[e1].k = log[e2].k => log[e1].n # log[e2].n

\* C5: rhalfs_to_pixels(R, npix, R) = npix and rhalfs_to_pixels(-R, npix, R) = 0
\* for every npix >= 1 and every R > 0.
C5_MapperAtEdges ==
    mapper.pc = "ret" =>
        /\ mapper.r = mapper.num_rhalfs => mapper.ret = mapper.npix
        /\ mapper.r = QNeg(mapper.num_rhalfs) => mapper.ret = 0

\* C6: for every h > 0 and every r > h, sph_kernel(r, h) returns exactly 0.
C6_CompactSupport ==
    kernel.pc = "ret" /\ QLt(Zero, kernel.h) /\ QLt(kernel.h, kernel.r) => kernel.ret = Zero

\* C7: the two polynomials agree at x = 1/2, the second gives 0 at x = 1 (the
\* value of the third branch), and the unnormalised kernel value at r = 0 is 1.
C7_Continuous ==
    kernel.pc = "ret" =>
        /\ kernel.x = Half =>
            /\ KernelInner(kernel.x) = KernelOuter(kernel.x)
            /\ kernel.retval = KernelOuter(kernel.x)
        /\ kernel.x = One => kernel.retval = Zero /\ KernelOuter(kernel.x) = Zero
        /\ kernel.r = Zero => kernel.retval = One

C7_Witness ==
    /\ kernel.pc = "ret"
    /\ kernel.x = Half
    /\ kernel.retval = <<1, 4>>
    /\ kernel.h = <<3, 2>>

====
